---- MODULE Spec2Model ----
(***************************************************************************)
(* A model of the three bounded MPMC ring-buffer queues of synqueue:       *)
(* AxelQueue (src/src/axel.rs), DoubleQueue (src/src/double.rs) and        *)
(* MaskedQueue (src/src/masked.rs).  Every atomic access of push, pop and  *)
(* drop is one step of the calling thread; the thread-local computation    *)
(* that follows an atomic access is folded into the same step.             *)
(***************************************************************************)
EXTENDS Integers, Sequences, FiniteSets, Bags, TLC

(***************************************************************************)
(* Bounds of the model.                                                    *)
(***************************************************************************)
\* producer threads of a concurrent run (test_barrage spawns NUM_THREADS)
NumProducers == 2
\* consumer threads of a concurrent run
NumConsumers == 2
\* calls made by a thread of a concurrent run
MaxOps == 2
\* largest capacity of a concurrent run
MaxConcCap == 2
\* largest capacity of a single-threaded run
MaxCap == 4
\* calls made by the thread of a single-threaded run
SeqCalls == 10
\* calls of the second producer in the runs that lap the ring
LapOps == 3
\* calls of the second producer in the runs that fill the in-flight window
WindowOps == 65

(***************************************************************************)
(* Program constants.                                                      *)
(***************************************************************************)
\* axel.rs: bits of one occupation word
MASK_BITS == 64
\* masked.rs: bits of a word that hold the index
INDEX_BITS == 20
\* masked.rs: bits of a word
TOTAL_BITS == 64

Variants == {"Axel", "Double", "Masked"}
Threads == 1 .. (NumProducers + NumConsumers)

\* a value is <<thread, number of the call>>; these two are no pushed value
NoValue == <<0, 0>>
Garbage == <<0, 1>>

VARIABLES
    variant,     \* which queue type the run constructs
    capacity,    \* the argument of new()
    role,        \* per thread: "push", "pop", "both" or "none"
    budget,      \* per thread: calls left
    pc,          \* per thread: position inside push / pop
    loc,         \* per thread: the locals of the running call
    result,      \* per thread: what the last finished call returned
    state,       \* AxelQueue.state, unpacked: [head, tail]
    occupation,  \* AxelQueue.occupation: word index -> set of set bit positions
    wide,        \* DoubleQueue.wide, unpacked
    narrow,      \* DoubleQueue.narrow, unpacked
    head,        \* MaskedQueue.head: [index, mask (set of set bit positions)]
    tail,        \* MaskedQueue.tail
    data,        \* the slots: [val, live]
    resPush,     \* history: values in the order of the head-side reservations
    popOut,      \* history: values read, in the order of the tail-side reservations
    pushedOk,    \* history: values whose push returned Ok
    fifo,        \* the abstract bounded FIFO a single-threaded run is compared with
    expect,      \* what the abstract FIFO returned for the last call
    calls,       \* the calls a single-threaded run has made: [op, arg, kind, value]
    destroyed,   \* "no" while the queue lives; "dropped", or "panicked" when
                 \* drop's assertion failed; "unbuilt" before new() is called,
                 \* "new_panicked" when the assertion of new() failed
    dropped      \* slot contents the destructor dropped, in order

shared == <<state, occupation, wide, narrow, head, tail, data>>
history == <<resPush, popOut>>
config == <<variant, capacity, role>>
vars == <<variant, capacity, role, budget, pc, loc, result, state, occupation,
          wide, narrow, head, tail, data, resPush, popOut, pushedOk, fifo,
          expect, calls, destroyed, dropped>>

(***************************************************************************)
(* Helpers shared by the three queues.                                     *)
(***************************************************************************)
\* data.len(): capacity + 1 slots
DataLen == capacity + 1

\* State::unpack(0) / AtomicUsize::new(0)
ZeroState == [head |-> 0, tail |-> 0]
ZeroWord == [index |-> 0, mask |-> {}]
Pending == <<0, 2>>

NoLoc == [op |-> "none", value |-> NoValue, state |-> ZeroState, index |-> 0,
          next |-> 0, main |-> ZeroWord, nextw |-> ZeroWord,
          last_used_index |-> 0, rank |-> 0, modified |-> FALSE,
          tried |-> FALSE]
NoResult == [kind |-> "none", value |-> NoValue, modified |-> FALSE,
             tried |-> FALSE]

advanceEarly(index, len) == IF index + 2 >= len THEN 0 ELSE index + 1
\* fn advance: the next slot index, wrapping at data.len()
advance(index, len) == IF index + 1 = len THEN 0 ELSE index + 1

exchange_stale_other(cur, expected, new, spurious) ==
    [ok |-> cur = expected /\ ~spurious,
     stored |-> IF cur = expected /\ ~spurious THEN new ELSE cur,
     other |-> expected]
swap_strong(cur, expected, new, spurious) ==
    [ok |-> cur = expected /\ ~spurious, stored |-> new, other |-> cur]
\* AtomicUsize::compare_exchange_weak: stores new iff the word equals expected
\* and the exchange does not fail spuriously; reports the word it found
compare_exchange_weak(cur, expected, new, spurious) ==
    [ok |-> cur = expected /\ ~spurious,
     stored |-> IF cur = expected /\ ~spurious THEN new ELSE cur,
     other |-> cur]
\* the outcomes a weak exchange can have for this word
Spurious(cur, expected) == IF cur = expected THEN {FALSE, TRUE} ELSE {FALSE}

\* positions from which a step attempts a compare-exchange
CasPcs == {"a_push_cas", "a_pop_cas", "d_push_cas", "d_pop_cas",
           "d_push_catch", "d_pop_catch", "m_acq_cas", "m_push_release",
           "m_pop_release"}

\* pcs at which a push holds a reserved slot it is writing / has written
WritePcs == {"a_push_write", "a_push_or", "d_push_write", "d_push_load",
             "d_push_catch", "m_push_write", "m_push_release"}
Racing(t, i) == \E u \in Threads \ {t} : pc[u] \in WritePcs /\ loc[u].index = i

\* the value a non-atomic read of slot i hands to thread t: the slot's bytes
\* (still there after a move-out); Garbage, standing for indeterminate bytes,
\* when the slot was never written, and possibly when a push holds the slot at
\* the same time (a torn read)
ReadOutcomes(t, i) ==
    {IF data[i].val = NoValue THEN Garbage ELSE data[i].val}
    \cup (IF Racing(t, i) THEN {Garbage} ELSE {})
\* what a non-atomic write of v to slot i by thread t can leave in the slot
WriteOutcomes(t, i, v) == {v} \cup (IF Racing(t, i) THEN {Garbage} ELSE {})

\* assume_init_read / ptr::read: the value is moved out, the bytes stay
slot_read(i) == [data EXCEPT ![i].live = FALSE]

\* the value of the call thread t starts now
NewValue(t) == <<t, budget[t]>>

\* a step inside a call: new position and locals; `modified` records whether
\* this call has changed a state word, an occupancy bit or a slot so far,
\* `tried` whether it has attempted a compare-exchange so far
Step(t, newpc, l) ==
    /\ pc' = [pc EXCEPT ![t] = newpc]
    /\ loc' = [loc EXCEPT ![t] = [l EXCEPT !.modified = @ \/ (shared' # shared),
                                           !.tried = @ \/ (pc[t] \in CasPcs)]]
    /\ UNCHANGED <<config, budget, result, pushedOk, fifo, expect, calls,
                   destroyed, dropped>>

\* the abstract bounded FIFO's answer to the call (single-threaded runs)
AbsResult(l) ==
    IF l.op = "push"
    THEN IF Len(fifo) < capacity THEN [kind |-> "Ok", value |-> NoValue]
                                 ELSE [kind |-> "Err", value |-> l.value]
    ELSE IF fifo = <<>> THEN [kind |-> "None", value |-> NoValue]
                        ELSE [kind |-> "Some", value |-> Head(fifo)]
AbsNext(l) ==
    IF l.op = "push"
    THEN IF Len(fifo) < capacity THEN Append(fifo, l.value) ELSE fifo
    ELSE IF fifo = <<>> THEN fifo ELSE Tail(fifo)

\* the call returns kind(v)
Return(t, kind, v, l) ==
    /\ pc' = [pc EXCEPT ![t] = "idle"]
    /\ loc' = [loc EXCEPT ![t] = NoLoc]
    /\ budget' = [budget EXCEPT ![t] = @ - 1]
    /\ result' = [result EXCEPT ![t] =
                    [kind |-> kind, value |-> v,
                     modified |-> l.modified \/ (shared' # shared),
                     tried |-> l.tried \/ (pc[t] \in CasPcs)]]
    /\ pushedOk' = IF kind = "Ok" THEN pushedOk \cup {l.value} ELSE pushedOk
    /\ IF role[t] = "both"
       THEN /\ fifo' = AbsNext(l)
            /\ expect' = AbsResult(l)
            /\ calls' = Append(calls,
                    [op |-> l.op, kind |-> kind, value |-> v,
                     arg |-> IF l.op = "push" THEN l.value ELSE NoValue])
       ELSE UNCHANGED <<fifo, expect, calls>>
    /\ UNCHANGED <<config, destroyed, dropped>>

\* a failed assertion: the thread unwinds inside the call
Panic(t, l) ==
    /\ pc' = [pc EXCEPT ![t] = "panicked"]
    /\ loc' = [loc EXCEPT ![t] = [l EXCEPT !.modified = @ \/ (shared' # shared),
                                           !.tried = @ \/ (pc[t] \in CasPcs)]]
    /\ result' = [result EXCEPT ![t] =
                    [kind |-> "panic", value |-> NoValue,
                     modified |-> l.modified \/ (shared' # shared),
                     tried |-> l.tried \/ (pc[t] \in CasPcs)]]
    /\ UNCHANGED <<config, budget, pushedOk, fifo, expect, calls, destroyed,
                   dropped>>

CanPush(t) == /\ destroyed = "no" /\ pc[t] = "idle" /\ budget[t] > 0
              /\ role[t] \in {"push", "both"}
CanPop(t) == /\ destroyed = "no" /\ pc[t] = "idle" /\ budget[t] > 0
             /\ role[t] \in {"pop", "both"}

\* a head-side reservation CAS succeeded for value v
ReservePush(v) == /\ resPush' = Append(resPush, v)
                  /\ UNCHANGED <<popOut>>
\* a tail-side reservation CAS succeeded
ReservePop == /\ popOut' = Append(popOut, Pending)
              /\ UNCHANGED <<resPush>>
\* the pop with reservation number k has read v
RecordPop(k, v) == /\ popOut' = [popOut EXCEPT ![k] = v]
                   /\ UNCHANGED <<resPush>>

(***************************************************************************)
(* AxelQueue (src/src/axel.rs)                                             *)
(***************************************************************************)
AxelWord(index) == index \div MASK_BITS
AxelBit(index) == index % MASK_BITS

\* axel.rs:64-67: the full test of push
Axel_push_full(s) == advance(s.head, DataLen) = s.tail

\* axel.rs:63-67: top of the push loop with a fresh `state`
Axel_push_top(t, l, st) ==
    IF Axel_push_full(st)
    THEN Return(t, "Err", l.value, l)
    ELSE Step(t, "a_push_mask", [l EXCEPT !.state = st, !.index = st.head,
                                          !.next = advance(st.head, DataLen)])

\* axel.rs:58 and 85: push loads the state, on entry and again after it found
\* the occupancy bit of the slot at head still set
Axel_push_load(t) ==
    /\ variant = "Axel"
    /\ pc[t] \in {"idle", "a_push_reload"}
    /\ pc[t] = "idle" => CanPush(t)
    /\ UNCHANGED <<shared, history>>
    /\ Axel_push_top(t, IF pc[t] = "idle"
                        THEN [NoLoc EXCEPT !.op = "push", !.value = NewValue(t)]
                        ELSE loc[t], state)

\* axel.rs:69-73: push loads the occupation word of the slot at head
Axel_push_mask(t) ==
    /\ pc[t] = "a_push_mask"
    /\ UNCHANGED <<shared, history>>
    /\ IF AxelBit(loc[t].index) \notin occupation[AxelWord(loc[t].index)]
       THEN Step(t, "a_push_cas", loc[t])
       ELSE Step(t, "a_push_reload", loc[t])

\* axel.rs:74-82: the reservation CAS of push
Axel_push_cas(t) ==
    /\ pc[t] = "a_push_cas"
    /\ \E sp \in Spurious(state, loc[t].state) :
         LET l == loc[t]
             r == compare_exchange_weak(state, l.state,
                                        [l.state EXCEPT !.head = l.next], sp)
         IN /\ state' = r.stored
            /\ UNCHANGED <<occupation, wide, narrow, head, tail, data>>
            /\ IF r.ok
               THEN ReservePush(l.value) /\ Step(t, "a_push_write", l)
               ELSE UNCHANGED history /\ Axel_push_top(t, l, r.other)

\* axel.rs:92: write the value into the reserved slot
Axel_push_write(t) ==
    /\ pc[t] = "a_push_write"
    /\ \E v \in WriteOutcomes(t, loc[t].index, loc[t].value) :
         data' = [data EXCEPT ![loc[t].index] = [val |-> v, live |-> TRUE]]
    /\ UNCHANGED <<state, occupation, wide, narrow, head, tail, history>>
    /\ Step(t, "a_push_or", loc[t])

\* axel.rs:94-99: set the occupancy bit; debug_assert_eq!(old & bit, 0) unwinds
\* in a build with debug assertions
Axel_push_or(t) ==
    /\ pc[t] = "a_push_or"
    /\ LET w == AxelWord(loc[t].index)
           b == AxelBit(loc[t].index)
       IN /\ occupation' = [occupation EXCEPT ![w] = @ \cup {b}]
          /\ UNCHANGED <<state, wide, narrow, head, tail, data, history>>
          /\ IF b \in occupation[w]
             THEN \E debug \in BOOLEAN :
                    IF debug THEN Panic(t, loc[t])
                             ELSE Return(t, "Ok", NoValue, loc[t])
             ELSE Return(t, "Ok", NoValue, loc[t])

\* axel.rs:109-112: top of the pop loop with a fresh `state`
Axel_pop_top(t, l, st) ==
    IF st.head = st.tail
    THEN Return(t, "None", NoValue, l)
    ELSE Step(t, "a_pop_mask", [l EXCEPT !.state = st, !.index = st.tail])

\* axel.rs:104 and 131: pop loads the state, on entry and again after it found
\* the occupancy bit of the slot at tail still clear
Axel_pop_load(t) ==
    /\ variant = "Axel"
    /\ pc[t] \in {"idle", "a_pop_reload"}
    /\ pc[t] = "idle" => CanPop(t)
    /\ UNCHANGED <<shared, history>>
    /\ Axel_pop_top(t, IF pc[t] = "idle" THEN [NoLoc EXCEPT !.op = "pop"]
                       ELSE loc[t], state)

\* axel.rs:114-118: pop loads the occupation word of the slot at tail
Axel_pop_mask(t) ==
    /\ pc[t] = "a_pop_mask"
    /\ UNCHANGED <<shared, history>>
    /\ IF AxelBit(loc[t].index) \in occupation[AxelWord(loc[t].index)]
       THEN Step(t, "a_pop_cas",
                 [loc[t] EXCEPT !.next = advance(loc[t].state.tail, DataLen)])
       ELSE Step(t, "a_pop_reload", loc[t])

\* axel.rs:119-128: the reservation CAS of pop
Axel_pop_cas(t) ==
    /\ pc[t] = "a_pop_cas"
    /\ \E sp \in Spurious(state, loc[t].state) :
         LET l == loc[t]
             r == compare_exchange_weak(state, l.state,
                                        [l.state EXCEPT !.tail = l.next], sp)
         IN /\ state' = r.stored
            /\ UNCHANGED <<occupation, wide, narrow, head, tail, data>>
            /\ IF r.ok
               THEN /\ ReservePop
                    /\ Step(t, "a_pop_read", [l EXCEPT !.rank = Len(popOut) + 1])
               ELSE UNCHANGED history /\ Axel_pop_top(t, l, r.other)

\* axel.rs:138: move the value out of the reserved slot
Axel_pop_read(t) ==
    /\ pc[t] = "a_pop_read"
    /\ \E v \in ReadOutcomes(t, loc[t].index) :
         /\ data' = slot_read(loc[t].index)
         /\ RecordPop(loc[t].rank, v)
         /\ UNCHANGED <<state, occupation, wide, narrow, head, tail>>
         /\ Step(t, "a_pop_and", [loc[t] EXCEPT !.value = v])

\* axel.rs:140-145: clear the occupancy bit; debug_assert_ne!(old & bit, 0)
Axel_pop_and(t) ==
    /\ pc[t] = "a_pop_and"
    /\ LET w == AxelWord(loc[t].index)
           b == AxelBit(loc[t].index)
       IN /\ occupation' = [occupation EXCEPT ![w] = @ \ {b}]
          /\ UNCHANGED <<state, wide, narrow, head, tail, data, history>>
          /\ IF b \notin occupation[w]
             THEN \E debug \in BOOLEAN :
                    IF debug THEN Panic(t, loc[t])
                             ELSE Return(t, "Some", loc[t].value, loc[t])
             ELSE Return(t, "Some", loc[t].value, loc[t])

\* a step of thread t in AxelQueue::push or AxelQueue::pop
AxelThread(t) ==
        \/ Axel_push_load(t) \/ Axel_push_mask(t) \/ Axel_push_cas(t)
        \/ Axel_push_write(t) \/ Axel_push_or(t)
        \/ Axel_pop_load(t) \/ Axel_pop_mask(t) \/ Axel_pop_cas(t)
        \/ Axel_pop_read(t) \/ Axel_pop_and(t)
NextAxel == \E t \in Threads : AxelThread(t)

(***************************************************************************)
(* DoubleQueue (src/src/double.rs)                                         *)
(***************************************************************************)
Double_push_full_never(s) == s.head # s.head
Double_push_full_late(s) == advance(advance(s.head, DataLen), DataLen) = s.tail
\* double.rs:83-86: the full test of push, on the wide state
Double_push_full(s) == advance(s.head, DataLen) = s.tail

\* double.rs:82-86: top of the reservation loop of push with a fresh `state`
Double_push_top(t, l, st) ==
    IF Double_push_full(st)
    THEN Return(t, "Err", l.value, l)
    ELSE Step(t, "d_push_cas", [l EXCEPT !.state = st, !.index = st.head,
                                         !.next = advance(st.head, DataLen)])

\* double.rs:79: push loads the wide state
Double_push_load_wide(t) ==
    /\ variant = "Double" /\ CanPush(t)
    /\ UNCHANGED <<shared, history>>
    /\ Double_push_top(t, [NoLoc EXCEPT !.op = "push", !.value = NewValue(t)], wide)

\* double.rs:87-95: the reservation CAS of push, on wide
Double_push_cas(t) ==
    /\ pc[t] = "d_push_cas"
    /\ \E sp \in Spurious(wide, loc[t].state) :
         LET l == loc[t]
             r == compare_exchange_weak(wide, l.state,
                                        [l.state EXCEPT !.head = l.next], sp)
         IN /\ wide' = r.stored
            /\ UNCHANGED <<state, occupation, narrow, head, tail, data>>
            /\ IF r.ok
               THEN ReservePush(l.value) /\ Step(t, "d_push_write", l)
               ELSE UNCHANGED history /\ Double_push_top(t, l, r.other)

\* double.rs:101: write the value into the reserved slot
Double_push_write(t) ==
    /\ pc[t] = "d_push_write"
    /\ \E v \in WriteOutcomes(t, loc[t].index, loc[t].value) :
         data' = [data EXCEPT ![loc[t].index] = [val |-> v, live |-> TRUE]]
    /\ UNCHANGED <<state, occupation, wide, narrow, head, tail, history>>
    /\ Step(t, "d_push_load", loc[t])

\* double.rs:104-106: push loads the narrow state
Double_push_load_narrow(t) ==
    /\ pc[t] = "d_push_load"
    /\ UNCHANGED <<shared, history>>
    /\ Step(t, "d_push_catch", [loc[t] EXCEPT !.state = narrow])

Double_push_expected_any(l) == narrow
\* double.rs:112: the word the catch-up CAS of push expects: State { head, ..s }
Double_push_expected(l) == [l.state EXCEPT !.head = l.index]

\* double.rs:107-127: one round of the catch-up loop of push, on narrow
Double_push_catch(t) ==
    /\ pc[t] = "d_push_catch"
    /\ LET l == loc[t]
           e == Double_push_expected(l)
       IN \E sp \in Spurious(narrow, e) :
            LET r == compare_exchange_weak(narrow, e, [e EXCEPT !.head = l.next], sp)
            IN /\ narrow' = r.stored
               /\ UNCHANGED <<state, occupation, wide, head, tail, data, history>>
               /\ IF r.ok
                  THEN Return(t, "Ok", NoValue, l)
                  ELSE Step(t, "d_push_catch", [l EXCEPT !.state = r.other])

\* double.rs:136-139: top of the reservation loop of pop with a fresh `state`
Double_pop_top(t, l, st) ==
    IF st.head = st.tail
    THEN Return(t, "None", NoValue, l)
    ELSE Step(t, "d_pop_cas", [l EXCEPT !.state = st, !.index = st.tail,
                                        !.next = advance(st.tail, DataLen)])

\* double.rs:133: pop loads the narrow state
Double_pop_load_narrow(t) ==
    /\ variant = "Double" /\ CanPop(t)
    /\ UNCHANGED <<shared, history>>
    /\ Double_pop_top(t, [NoLoc EXCEPT !.op = "pop"], narrow)

\* double.rs:141-149: the reservation CAS of pop, on narrow
Double_pop_cas(t) ==
    /\ pc[t] = "d_pop_cas"
    /\ \E sp \in Spurious(narrow, loc[t].state) :
         LET l == loc[t]
             r == compare_exchange_weak(narrow, l.state,
                                        [l.state EXCEPT !.tail = l.next], sp)
         IN /\ narrow' = r.stored
            /\ UNCHANGED <<state, occupation, wide, head, tail, data>>
            /\ IF r.ok
               THEN /\ ReservePop
                    /\ Step(t, "d_pop_read", [l EXCEPT !.rank = Len(popOut) + 1])
               ELSE UNCHANGED history /\ Double_pop_top(t, l, r.other)

\* double.rs:155: move the value out of the reserved slot
Double_pop_read(t) ==
    /\ pc[t] = "d_pop_read"
    /\ \E v \in ReadOutcomes(t, loc[t].index) :
         /\ data' = slot_read(loc[t].index)
         /\ RecordPop(loc[t].rank, v)
         /\ UNCHANGED <<state, occupation, wide, narrow, head, tail>>
         /\ Step(t, "d_pop_load", [loc[t] EXCEPT !.value = v])

\* double.rs:158-159: pop loads the wide state
Double_pop_load_wide(t) ==
    /\ pc[t] = "d_pop_load"
    /\ UNCHANGED <<shared, history>>
    /\ Step(t, "d_pop_catch", [loc[t] EXCEPT !.state = wide])

Double_pop_expected_any(l) == wide
\* double.rs:166: the word the catch-up CAS of pop expects: State { tail, ..s }
Double_pop_expected(l) == [l.state EXCEPT !.tail = l.index]

\* double.rs:161-181: one round of the catch-up loop of pop, on wide
Double_pop_catch(t) ==
    /\ pc[t] = "d_pop_catch"
    /\ LET l == loc[t]
           e == Double_pop_expected(l)
       IN \E sp \in Spurious(wide, e) :
            LET r == compare_exchange_weak(wide, e, [e EXCEPT !.tail = l.next], sp)
            IN /\ wide' = r.stored
               /\ UNCHANGED <<state, occupation, narrow, head, tail, data, history>>
               /\ IF r.ok
                  THEN Return(t, "Some", l.value, l)
                  ELSE Step(t, "d_pop_catch", [l EXCEPT !.state = r.other])

\* a step of thread t in DoubleQueue::push or DoubleQueue::pop
DoubleThread(t) ==
        \/ Double_push_load_wide(t) \/ Double_push_cas(t) \/ Double_push_write(t)
        \/ Double_push_load_narrow(t) \/ Double_push_catch(t)
        \/ Double_pop_load_narrow(t) \/ Double_pop_cas(t) \/ Double_pop_read(t)
        \/ Double_pop_load_wide(t) \/ Double_pop_catch(t)
NextDouble == \E t \in Threads : DoubleThread(t)

(***************************************************************************)
(* MaskedQueue (src/src/masked.rs)                                         *)
(***************************************************************************)
RECURSIVE BitLen(_)
\* the number of bits needed to write n
BitLen(n) == IF n = 0 THEN 0 ELSE 1 + BitLen(n \div 2)

SetMax(S) == CHOOSE x \in S : \A y \in S : y <= x

\* usize::leading_zeros of a word [index, mask]
leading_zeros(w) ==
    IF w.mask = {} THEN TOTAL_BITS - BitLen(w.index)
                   ELSE TOTAL_BITS - 1 - SetMax(w.mask)

\* usize::saturating_sub
saturating_sub(a, b) == IF a > b THEN a - b ELSE 0

\* masked.rs:29-37: the index reserved by the oldest operation in flight
get_last_used_index(rich_index, len) ==
    LET index == rich_index.index
        offset == saturating_sub(TOTAL_BITS - INDEX_BITS, leading_zeros(rich_index))
    IN IF index >= offset THEN index - offset ELSE index + len - offset

\* the atomics cas_acquire and cas_release work on: push passes (head, tail),
\* pop passes (tail, head)
MainRef(op) == IF op = "push" THEN head ELSE tail
GuardRef(op) == IF op = "push" THEN tail ELSE head
StoreMain(op, w) ==
    IF op = "push" THEN head' = w /\ UNCHANGED tail
                   ELSE tail' = w /\ UNCHANGED head

\* masked.rs:56-59: the word a reservation installs: the mask aged by one
\* shift, the new reservation's bit, the advanced index
next_word(main, len) ==
    [index |-> IF main.index + 1 # len THEN main.index + 1 ELSE 0,
     mask |-> {b + 1 : b \in main.mask \ {TOTAL_BITS - 1}} \cup {INDEX_BITS}]

\* masked.rs:61-64: BoundsCheck::NewValue for push, OldValue for pop
check_index(op, main, next) == IF op = "push" THEN next.index ELSE main.index

too_many_never(main) == FALSE
\* masked.rs:50: main >= (1 << (TOTAL_BITS - 1)), the highest bit is set
too_many_in_flight(main) == (TOTAL_BITS - 1) \in main.mask

\* masked.rs:50-71: top of the cas_acquire loop with a fresh `main`
Masked_acquire_top(t, l, m) ==
    IF too_many_in_flight(m)
    THEN Step(t, "m_acq_main", [l EXCEPT !.main = m])
    ELSE LET nx == next_word(m, DataLen)
             l2 == [l EXCEPT !.main = m, !.nextw = nx]
         IN IF check_index(l.op, m, nx) = l.last_used_index
            THEN Step(t, "m_acq_guard", l2)
            ELSE Step(t, "m_acq_cas", l2)

\* masked.rs:35: `index + self.data.len() - offset` leaves usize.  A build
\* with overflow checks panics there; one without wraps, and the negative
\* number get_last_used_index gives then stands for the wrapped value (equal
\* to no index).
last_used_overflows(rich_index, len) == get_last_used_index(rich_index, len) < 0

\* masked.rs:125 and 45-46: push enters cas_acquire and loads the guard (tail)
Masked_push_begin(t) ==
    /\ variant = "Masked" /\ CanPush(t)
    /\ UNCHANGED <<shared, history>>
    /\ LET l == [NoLoc EXCEPT !.op = "push", !.value = NewValue(t),
                              !.last_used_index = get_last_used_index(tail, DataLen)]
       IN \/ Step(t, "m_acq_main", l)
          \/ last_used_overflows(tail, DataLen) /\ Panic(t, l)

\* masked.rs:136 and 45-46: pop enters cas_acquire and loads the guard (head)
Masked_pop_begin(t) ==
    /\ variant = "Masked" /\ CanPop(t)
    /\ UNCHANGED <<shared, history>>
    /\ LET l == [NoLoc EXCEPT !.op = "pop",
                              !.last_used_index = get_last_used_index(head, DataLen)]
       IN \/ Step(t, "m_acq_main", l)
          \/ last_used_overflows(head, DataLen) /\ Panic(t, l)

\* masked.rs:47 and 53: cas_acquire loads the main word
Masked_acquire_main(t) ==
    /\ pc[t] = "m_acq_main"
    /\ UNCHANGED <<shared, history>>
    /\ Masked_acquire_top(t, loc[t], MainRef(loc[t].op))

\* masked.rs:65-71: the bounds check hit; reload the guard once and test again
Masked_acquire_guard(t) ==
    /\ pc[t] = "m_acq_guard"
    /\ UNCHANGED <<shared, history>>
    /\ LET l == [loc[t] EXCEPT !.last_used_index =
                     get_last_used_index(GuardRef(loc[t].op), DataLen)]
       IN \/ IF check_index(l.op, l.main, l.nextw) = l.last_used_index
             THEN IF l.op = "push" THEN Return(t, "Err", l.value, l)
                                   ELSE Return(t, "None", NoValue, l)
             ELSE Step(t, "m_acq_cas", l)
          \/ last_used_overflows(GuardRef(l.op), DataLen) /\ Panic(t, l)

\* masked.rs:73-81: the reservation CAS of cas_acquire
Masked_acquire_cas(t) ==
    /\ pc[t] = "m_acq_cas"
    /\ \E sp \in Spurious(MainRef(loc[t].op), loc[t].main) :
         LET l == loc[t]
             r == compare_exchange_weak(MainRef(l.op), l.main, l.nextw, sp)
         IN /\ StoreMain(l.op, r.stored)
            /\ UNCHANGED <<state, occupation, wide, narrow, data>>
            /\ IF r.ok
               THEN IF l.op = "push"
                    THEN /\ ReservePush(l.value)
                         /\ Step(t, "m_push_write", [l EXCEPT !.index = l.main.index])
                    ELSE /\ ReservePop
                         /\ Step(t, "m_pop_read",
                                 [l EXCEPT !.index = l.main.index,
                                           !.rank = Len(popOut) + 1])
               ELSE UNCHANGED history /\ Masked_acquire_top(t, l, r.other)

\* masked.rs:129-130: write the value; cas_release starts from `next`
Masked_push_write(t) ==
    /\ pc[t] = "m_push_write"
    /\ \E v \in WriteOutcomes(t, loc[t].index, loc[t].value) :
         data' = [data EXCEPT ![loc[t].index] = [val |-> v, live |-> TRUE]]
    /\ UNCHANGED <<state, occupation, wide, narrow, head, tail, history>>
    /\ Step(t, "m_push_release", [loc[t] EXCEPT !.main = loc[t].nextw])

\* masked.rs:137-138: move the value out; cas_release starts from `next`
Masked_pop_read(t) ==
    /\ pc[t] = "m_pop_read"
    /\ \E v \in ReadOutcomes(t, loc[t].index) :
         /\ data' = slot_read(loc[t].index)
         /\ RecordPop(loc[t].rank, v)
         /\ UNCHANGED <<state, occupation, wide, narrow, head, tail>>
         /\ Step(t, "m_pop_release",
                 [loc[t] EXCEPT !.value = v, !.main = loc[t].nextw])

\* masked.rs:86-91: the age of the reservation done_index in the word current
release_offset(current, done_index, len) ==
    IF current.index > done_index THEN current.index - done_index
                                  ELSE current.index + len - done_index

flip_none(current, bit) == current
\* masked.rs:97: current ^ bit
flip(current, bit) ==
    [current EXCEPT !.mask = IF bit \in @ THEN @ \ {bit} ELSE @ \cup {bit}]

\* masked.rs:84-108: one round of the cas_release loop; both assertions are
\* runtime assertions
Masked_release(t) ==
    /\ pc[t] \in {"m_push_release", "m_pop_release"}
    /\ LET l == loc[t]
           offset == release_offset(loc[t].main, loc[t].index, DataLen)
           bit == INDEX_BITS - 1 + offset
       IN IF ~(offset + INDEX_BITS <= TOTAL_BITS) \/ bit \notin loc[t].main.mask
          THEN UNCHANGED <<shared, history>> /\ Panic(t, loc[t])
          ELSE \E sp \in Spurious(MainRef(l.op), l.main) :
                 LET r == compare_exchange_weak(MainRef(l.op), l.main,
                                                flip(l.main, bit), sp)
                 IN /\ StoreMain(l.op, r.stored)
                    /\ UNCHANGED <<state, occupation, wide, narrow, data, history>>
                    /\ IF r.ok
                       THEN IF l.op = "push" THEN Return(t, "Ok", NoValue, l)
                                             ELSE Return(t, "Some", l.value, l)
                       ELSE Step(t, pc[t], [l EXCEPT !.main = r.other])

\* a step of thread t in MaskedQueue::push or MaskedQueue::pop
MaskedThread(t) ==
        \/ Masked_push_begin(t) \/ Masked_pop_begin(t) \/ Masked_acquire_main(t)
        \/ Masked_acquire_guard(t) \/ Masked_acquire_cas(t)
        \/ Masked_push_write(t) \/ Masked_pop_read(t) \/ Masked_release(t)
NextMasked == \E t \in Threads : MaskedThread(t)

(***************************************************************************)
(* Destruction                                                             *)
(***************************************************************************)
\* drop takes &mut self: no push or pop is in progress
Quiescent == \A t \in Threads : pc[t] \in {"idle", "panicked"}

RECURSIVE walk_from(_, _, _)
\* the slots the `while cursor != head` loop of drop visits, in order
walk(cursor, hd, len) == walk_from(cursor, hd, len)
walk_from(cursor, hd, len) ==
    IF cursor = hd THEN <<>>
    ELSE <<cursor>> \o walk_from(advance(cursor, len), hd, len)

\* the element destructor runs on the content of every slot visited
DropSlots(slots) ==
    /\ dropped' = [k \in 1 .. Len(slots) |-> data[slots[k]]]
    /\ destroyed' = "dropped"
DropPanics ==
    /\ dropped' = <<>>
    /\ destroyed' = "panicked"
DropFrame ==
    UNCHANGED <<config, budget, pc, loc, result, shared, history, pushedOk,
                fifo, expect, calls>>

\* axel.rs:149-160: Drop for AxelQueue
Axel_drop ==
    /\ variant = "Axel" /\ destroyed = "no" /\ Quiescent
    /\ DropSlots(walk(state.tail, state.head, DataLen))
    /\ DropFrame

\* double.rs:185-197: Drop for DoubleQueue; assert_eq!(wide, narrow)
Double_drop ==
    /\ variant = "Double" /\ destroyed = "no" /\ Quiescent
    /\ IF wide = narrow
       THEN DropSlots(walk(wide.tail, wide.head, DataLen))
       ELSE DropPanics
    /\ DropFrame

\* masked.rs:143-158: Drop for MaskedQueue; both masks are asserted empty
Masked_drop ==
    /\ variant = "Masked" /\ destroyed = "no" /\ Quiescent
    /\ IF head.mask = {} /\ tail.mask = {}
       THEN DropSlots(walk(tail.index, head.index, DataLen))
       ELSE DropPanics
    /\ DropFrame

(***************************************************************************)
(* Construction                                                            *)
(***************************************************************************)
\* the fields new(capacity) builds: zeroed state words, clear occupation,
\* uninitialised slots
Alloc(v, c) ==
    /\ variant = v
    /\ capacity = c
    /\ state = ZeroState
    /\ occupation = [w \in 0 .. (c \div MASK_BITS) |-> {}]
    /\ wide = ZeroState
    /\ narrow = ZeroState
    /\ head = ZeroWord
    /\ tail = ZeroWord
    /\ data = [i \in 0 .. c |-> [val |-> NoValue, live |-> FALSE]]
    /\ pc = [t \in Threads |-> "idle"]
    /\ loc = [t \in Threads |-> NoLoc]
    /\ result = [t \in Threads |-> NoResult]
    /\ resPush = <<>>
    /\ popOut = <<>>
    /\ pushedOk = {}
    /\ fifo = <<>>
    /\ expect = [kind |-> "none", value |-> NoValue]
    /\ calls = <<>>
    /\ dropped = <<>>

\* new(capacity) has returned the queue
New(v, c) == Alloc(v, c) /\ destroyed = "no"

\* usize::count_ones: the number of 1 bits of c
RECURSIVE count_ones(_)
count_ones(c) == IF c = 0 THEN 0 ELSE (c % 2) + count_ones(c \div 2)

is_power_of_two_or_zero(c) == count_ones(c) <= 1
\* usize::is_power_of_two: exactly one bit is set
is_power_of_two(c) == count_ones(c) = 1

\* masked.rs:112-121: MaskedQueue::new asserts a power of two before it builds
\* the queue; AxelQueue::new and DoubleQueue::new assert nothing
SynQueue_new ==
    /\ destroyed = "unbuilt"
    /\ destroyed' = IF variant = "Masked" /\ ~is_power_of_two(capacity)
                    THEN "new_panicked" ELSE "no"
    /\ UNCHANGED <<config, budget, pc, loc, result, shared, history, pushedOk,
                   fifo, expect, calls, dropped>>

\* the capacities new() accepts (MaskedQueue::new asserts a power of two)
Capacities(v, max) ==
    {c \in 1 .. max : v = "Masked" => is_power_of_two(c)}

\* test_barrage: producers only push, consumers only pop
ConcRoles == [t \in Threads |-> IF t <= NumProducers THEN "push" ELSE "pop"]
\* the first producer and the first consumer make one call, every other
\* thread MaxOps calls
ConcCalls(t) == IF t \in {1, NumProducers + 1} THEN 1 ELSE MaxOps
\* test_smoke / test_overflow: one thread makes every call
SeqRoles == [t \in Threads |-> IF t = 1 THEN "both" ELSE "none"]

Init ==
    \E v \in Variants : \E c \in Capacities(v, MaxConcCap) :
        /\ New(v, c)
        /\ role = ConcRoles
        /\ budget = [t \in Threads |-> ConcCalls(t)]

InitSeq ==
    \E v \in Variants : \E c \in Capacities(v, MaxCap) :
        /\ New(v, c)
        /\ role = SeqRoles
        /\ budget = [t \in Threads |-> IF t = 1 THEN SeqCalls ELSE 0]

\* new() is about to be called with any capacity, 0 included; one thread then
\* uses the queue
InitNew ==
    \E v \in Variants : \E c \in 0 .. MaxCap :
        /\ Alloc(v, c)
        /\ destroyed = "unbuilt"
        /\ role = SeqRoles
        /\ budget = [t \in Threads |-> IF t = 1 THEN MaxOps ELSE 0]

\* two producers and a consumer on the smallest MaskedQueue, the second
\* producer calling LapOps times
InitLap ==
    /\ New("Masked", 1)
    /\ role = [ConcRoles EXCEPT ![NumProducers + NumConsumers] = "none"]
    /\ budget = [t \in Threads |-> CASE t = 2 -> LapOps
                                    [] t \in {1, NumProducers + 1} -> 1
                                    [] OTHER -> 0]

\* two producers and no consumer on the smallest MaskedQueue that can have
\* a full mask of operations in flight, the second producer calling
\* WindowOps times
InitWindow ==
    /\ \E c \in TOTAL_BITS - INDEX_BITS .. 2 * (TOTAL_BITS - INDEX_BITS) - 1 :
          is_power_of_two(c) /\ New("Masked", c)
    /\ role = [t \in Threads |-> IF t <= NumProducers THEN "push" ELSE "none"]
    /\ budget = [t \in Threads |-> CASE t = 2 -> WindowOps
                                    [] t = 1 -> 1
                                    [] OTHER -> 0]

InitAxel == Init /\ variant = "Axel"
InitDouble == Init /\ variant = "Double"
InitMasked == Init /\ variant = "Masked"

Next == NextAxel \/ Axel_drop \/ NextDouble \/ Double_drop \/ NextMasked \/ Masked_drop

\* concurrent producers and consumers, every queue type
Spec == Init /\ [][Next]_vars
\* one thread making every call, every queue type
SpecSeq == InitSeq /\ [][Next]_vars
\* construction with any argument, then single-threaded use
SpecNew == InitNew /\ [][SynQueue_new \/ Next]_vars
SpecAxel == InitAxel /\ [][NextAxel \/ Axel_drop]_vars
SpecDouble == InitDouble /\ [][NextDouble \/ Double_drop]_vars
SpecMasked == InitMasked /\ [][NextMasked \/ Masked_drop]_vars
SpecMaskedLap == InitLap /\ [][NextMasked \/ Masked_drop]_vars
\* the steps of MaskedQueue::push alone
MaskedPushThread(t) ==
        \/ Masked_push_begin(t) \/ Masked_acquire_main(t)
        \/ Masked_acquire_guard(t) \/ Masked_acquire_cas(t)
        \/ Masked_push_write(t) \/ Masked_release(t)
SpecMaskedWindow ==
    InitWindow /\ [][(\E t \in Threads : MaskedPushThread(t)) \/ Masked_drop]_vars

(***************************************************************************)
(* Scheduling.  The operating system schedules every thread again and      *)
(* again (weak fairness of a thread's steps), and a weak compare-exchange  *)
(* does not fail spuriously for ever: a thread that again and again        *)
(* attempts an exchange on a word that holds the expected value eventually *)
(* succeeds (strong fairness of the successful exchange).                  *)
(***************************************************************************)
AxelCasSucceeds(t) == AxelThread(t) /\ pc[t] \in CasPcs /\ shared' # shared
DoubleCasSucceeds(t) == DoubleThread(t) /\ pc[t] \in CasPcs /\ shared' # shared
MaskedCasSucceeds(t) == MaskedThread(t) /\ pc[t] \in CasPcs /\ shared' # shared

AxelFair(t) == WF_vars(AxelThread(t)) /\ SF_vars(AxelCasSucceeds(t))
DoubleFair(t) == WF_vars(DoubleThread(t)) /\ SF_vars(DoubleCasSucceeds(t))
MaskedFair(t) == WF_vars(MaskedThread(t)) /\ SF_vars(MaskedCasSucceeds(t))

\* every thread is scheduled fairly; the queue outlives the threads
FairSpecAxel == InitAxel /\ [][NextAxel]_vars /\ \A t \in Threads : AxelFair(t)
FairSpecDouble == InitDouble /\ [][NextDouble]_vars /\ \A t \in Threads : DoubleFair(t)
FairSpecMasked == InitMasked /\ [][NextMasked]_vars /\ \A t \in Threads : MaskedFair(t)

\* thread 1 may be suspended for ever at any point; the others are scheduled
\* fairly
StallSpecAxel ==
    InitAxel /\ [][NextAxel]_vars /\ \A t \in Threads \ {1} : AxelFair(t)
StallSpecDouble ==
    InitDouble /\ [][NextDouble]_vars /\ \A t \in Threads \ {1} : DoubleFair(t)
StallSpecMasked ==
    InitMasked /\ [][NextMasked]_vars /\ \A t \in Threads \ {1} : MaskedFair(t)

(***************************************************************************)
(* Observations the properties below are stated on.                        *)
(***************************************************************************)
\* every thread has made all its calls and returned from the last one
Finished == \A t \in Threads : pc[t] = "idle" /\ budget[t] = 0

\* the head and tail the queue shows between calls
QHead == CASE variant = "Axel" -> state.head
           [] variant = "Double" -> wide.head
           [] OTHER -> head.index
QTail == CASE variant = "Axel" -> state.tail
           [] variant = "Double" -> wide.tail
           [] OTHER -> tail.index

\* the values in the slots from tail to head
HeldVals ==
    LET slots == walk_from(QTail, QHead, DataLen)
    IN [k \in 1 .. Len(slots) |-> data[slots[k]].val]

Range(s) == {s[k] : k \in 1 .. Len(s)}
Count(s, v) == Cardinality({k \in 1 .. Len(s) : s[k] = v})
\* the values pops have returned or are about to return
Popped == SelectSeq(popOut, LAMBDA v : v # Pending)

\* pushes that reserved a slot minus pops that reserved a slot
LogicalSize == Len(resPush) - Len(popOut)

\* the slots left between calls hold exactly the values of the abstract FIFO
Min(a, b) == IF a < b THEN a ELSE b
AllPush(from, to) == \A k \in from .. to : calls[k].op = "push"
AllPop(from, to) == \A k \in from .. to : calls[k].op = "pop"
\* the value given to the call thread t finished last
LastArg(t) == <<t, budget[t] + 1>>
Refused(r) == r.kind \in {"Err", "None"}

(***************************************************************************)
(* C1: used by a single thread, every queue type answers each push and pop *)
(* exactly as an abstract bounded FIFO of the same capacity does (Ok while *)
(* fewer than capacity values are held, otherwise Err with the value; the  *)
(* oldest value on pop, None when empty), and between calls the slots from *)
(* tail to head hold exactly the abstract FIFO's values, also after the    *)
(* slot index has wrapped through 0.                                       *)
(***************************************************************************)
C1_SeqRefinesFifo ==
    role[1] = "both" =>
        /\ result[1].kind = expect.kind
        /\ result[1].value = expect.value
        /\ pc[1] = "idle" => HeldVals = fifo
\* the index has wrapped through 0 and every value came back in push order
C1_Witness ==
    /\ role[1] = "both" /\ variant = "Masked" /\ capacity = 2
    /\ Len(resPush) > capacity + 1
    /\ result[1].kind = "Some"
    /\ result[1].value = resPush[Len(resPush)]
    /\ Popped = resPush

(***************************************************************************)
(* C2: a single thread whose first capacity+1 calls are pushes gets Ok for *)
(* the first capacity of them and Err carrying the pushed value for the    *)
(* last; if the next calls are pops, the j-th of them (j <= capacity)      *)
(* returns the value of the j-th push.                                     *)
(***************************************************************************)
C2_Overflow ==
    LET n == Len(calls)
        m == Min(n, capacity + 1)
    IN (role[1] = "both" /\ AllPush(1, m)) =>
        /\ \A k \in 1 .. m :
             IF k <= capacity
             THEN calls[k].kind = "Ok"
             ELSE calls[k].kind = "Err" /\ calls[k].value = calls[k].arg
        /\ \A j \in 1 .. capacity :
             (n >= capacity + 1 + j /\ AllPop(capacity + 2, capacity + 1 + j)) =>
                /\ calls[capacity + 1 + j].kind = "Some"
                /\ calls[capacity + 1 + j].value = calls[j].arg
\* capacity+1 pushes, then capacity pops, on the largest power-of-two queue
C2_Witness ==
    /\ role[1] = "both" /\ variant = "Masked" /\ capacity = 4
    /\ Len(calls) = 2 * capacity + 1
    /\ AllPush(1, capacity + 1)
    /\ AllPop(capacity + 2, 2 * capacity + 1)

(***************************************************************************)
(* C3: once all threads have finished, the values returned by pops plus    *)
(* the values held in the slots from tail to head are, as multisets, the   *)
(* values whose push returned Ok.                                          *)
(***************************************************************************)
C3_Conservation ==
    Finished =>
        \A v \in Range(Popped) \cup Range(HeldVals) \cup pushedOk :
            Count(Popped, v) + Count(HeldVals, v) = (IF v \in pushedOk THEN 1 ELSE 0)

(***************************************************************************)
(* C4: every value a pop reads is the complete value one push wrote, and   *)
(* no pushed value is read by two pops.                                    *)
(***************************************************************************)
C4_NoTornNoDuplicate ==
    \A v \in Range(Popped) : v \in Range(resPush) /\ Count(Popped, v) = 1

(***************************************************************************)
(* C5: in every reachable state the pushes that reserved a slot minus the  *)
(* pops that reserved a slot number at most capacity.                      *)
(***************************************************************************)
C5_BoundedSize == LogicalSize <= capacity

(***************************************************************************)
(* C6 as claimed: a push that returns Err returns the value it was given,  *)
(* a pop that returns None returns no value, the call has changed no state *)
(* word, no occupancy bit and no slot, and it has attempted no             *)
(* compare-exchange before the refusal was decided.                        *)
(***************************************************************************)
C6_RefusalBeforeAnyCas ==
    \A t \in Threads :
        (pc[t] = "idle" /\ Refused(result[t])) =>
            /\ ~result[t].modified
            /\ result[t].value = (IF result[t].kind = "Err" THEN LastArg(t) ELSE NoValue)
            /\ ~result[t].tried

(***************************************************************************)
(* C6 as amended: a push that returns Err returns the value it was given,  *)
(* a pop that returns None returns no value, and the call has changed no   *)
(* state word, no occupancy bit and no slot; compare-exchanges that failed *)
(* may precede the refusal.                                                *)
(***************************************************************************)
C6_RefusalChangesNothing ==
    \A t \in Threads :
        (pc[t] = "idle" /\ Refused(result[t])) =>
            /\ ~result[t].modified
            /\ result[t].value = (IF result[t].kind = "Err" THEN LastArg(t) ELSE NoValue)
\* under contention a push was refused and a pop was refused
C6_Witness ==
    \E t, u \in Threads :
        /\ pc[t] = "idle" /\ result[t].kind = "Err"
        /\ pc[u] = "idle" /\ result[u].kind = "None"
        /\ Len(resPush) >= 2 /\ Len(popOut) >= 1

(***************************************************************************)
(* C7: the pop with the k-th successful tail-side reservation reads the    *)
(* value of the push with the k-th successful head-side reservation.       *)
(***************************************************************************)
C7_ReservationFifo ==
    \A k \in 1 .. Len(popOut) :
        popOut[k] # Pending => (k <= Len(resPush) /\ popOut[k] = resPush[k])

(***************************************************************************)
(* C10: a queue destroyed with no call in progress drops exactly the       *)
(* values that were pushed with Ok and not popped, each once, and the      *)
(* destructor's own assertions hold.                                       *)
(***************************************************************************)
C10_DropExact ==
    (destroyed # "no" /\ \A t \in Threads : pc[t] = "idle") =>
        /\ destroyed = "dropped"
        /\ \A k \in 1 .. Len(dropped) : dropped[k].live
        /\ LET vals == [k \in 1 .. Len(dropped) |-> dropped[k].val]
           IN \A v \in Range(vals) \cup pushedOk :
                Count(vals, v) = (IF v \in pushedOk /\ v \notin Range(Popped) THEN 1 ELSE 0)

\* every thread has returned from its last call or has unwound
Halted == \A t \in Threads : \/ pc[t] = "panicked"
                             \/ pc[t] = "idle" /\ budget[t] = 0
\* every thread but thread 1 has returned from its last call or has unwound
OthersHalted == \A t \in Threads \ {1} : \/ pc[t] = "panicked"
                                         \/ pc[t] = "idle" /\ budget[t] = 0

(***************************************************************************)
(* C8: when every thread makes a bounded number of calls and is scheduled  *)
(* fairly, every call eventually returns and every thread finishes.        *)
(***************************************************************************)
C8_Termination == <>Halted

C11_NewPowerOfTwo ==
    destroyed # "unbuilt" =>
        ((destroyed = "new_panicked") <=>
            (variant = "Masked" /\ capacity \notin {2 ^ k : k \in 0 .. MaxCap}))
\* MaskedQueue::new(3) has failed
C11_Witness == variant = "Masked" /\ capacity = 3 /\ destroyed = "new_panicked"

(***************************************************************************)
(* Observations on DoubleQueue.                                            *)
(***************************************************************************)
\* pushes / pops between their reservation and the end of their catch-up
DoublePushHeld == {t \in Threads : pc[t] \in {"d_push_write", "d_push_load", "d_push_catch"}}
DoublePopHeld == {t \in Threads : pc[t] \in {"d_pop_read", "d_pop_load", "d_pop_catch"}}
\* the four indices as counters that never wrap: reservations made and
\* catch-ups completed on each side
WideHeadCount == Len(resPush)
NarrowHeadCount == Len(resPush) - Cardinality(DoublePushHeld)
NarrowTailCount == Len(popOut)
WideTailCount == Len(popOut) - Cardinality(DoublePopHeld)
\* slots from index a forward to index b, and membership in the ring interval
Dist(a, b) == (b - a + DataLen) % DataLen
InRing(i, from, to) == Dist(from, i) < Dist(from, to)
PushesAt(i) == {t \in DoublePushHeld : loc[t].index = i}
PopsAt(i) == {t \in DoublePopHeld : loc[t].index = i}
\* thread t takes this step
Mover(t) == pc'[t] # pc[t] \/ loc'[t] # loc[t] \/ budget'[t] # budget[t]

(***************************************************************************)
(* C12: in DoubleQueue the four indices are the four counters modulo the   *)
(* number of slots, and in every reachable state                           *)
(* wide.tail <= narrow.tail <= narrow.head <= wide.head and                *)
(* wide.head - wide.tail <= capacity hold of the counters.                 *)
(***************************************************************************)
C12_DoubleOrder ==
    variant = "Double" =>
        /\ wide.head = WideHeadCount % DataLen
        /\ narrow.head = NarrowHeadCount % DataLen
        /\ narrow.tail = NarrowTailCount % DataLen
        /\ wide.tail = WideTailCount % DataLen
        /\ WideTailCount <= NarrowTailCount
        /\ NarrowTailCount <= NarrowHeadCount
        /\ NarrowHeadCount <= WideHeadCount
        /\ WideHeadCount - WideTailCount <= capacity
\* the head has gone round the ring while a push and a pop are in flight
C12_Witness ==
    /\ variant = "Double" /\ WideHeadCount >= DataLen
    /\ WideTailCount < NarrowTailCount /\ NarrowHeadCount < WideHeadCount

(***************************************************************************)
(* C13: in DoubleQueue every slot of [narrow.tail, narrow.head) holds a    *)
(* completely written value and no operation holds it; every slot of       *)
(* [narrow.head, wide.head) is held by exactly one push and no pop; every  *)
(* slot of [wide.tail, narrow.tail) is held by exactly one pop and no      *)
(* push; no operation holds any other slot.                                *)
(***************************************************************************)
C13_DoubleRegions ==
    variant = "Double" =>
        \A i \in 0 .. capacity :
            CASE InRing(i, narrow.tail, narrow.head) ->
                    /\ data[i].live /\ data[i].val \in Range(resPush)
                    /\ PushesAt(i) = {} /\ PopsAt(i) = {}
              [] InRing(i, narrow.head, wide.head) ->
                    Cardinality(PushesAt(i)) = 1 /\ PopsAt(i) = {}
              [] InRing(i, wide.tail, narrow.tail) ->
                    Cardinality(PopsAt(i)) = 1 /\ PushesAt(i) = {}
              [] OTHER -> PushesAt(i) = {} /\ PopsAt(i) = {}
\* a push has written its slot and a pop has read its slot, neither caught up
C13_Witness ==
    /\ variant = "Double"
    /\ \E t, u \in Threads : pc[t] = "d_push_catch" /\ pc[u] = "d_pop_catch"

(***************************************************************************)
(* C14: in DoubleQueue catch-ups commit in reservation order: the pushes   *)
(* that have returned Ok are the first reservations of the head side, and  *)
(* the pops still holding a slot are the last reservations of the tail     *)
(* side.                                                                   *)
(***************************************************************************)
C14_CatchUpOrder ==
    variant = "Double" =>
        /\ pushedOk = {resPush[k] : k \in 1 .. Cardinality(pushedOk)}
        /\ {loc[t].rank : t \in DoublePopHeld} =
               (Len(popOut) - Cardinality(DoublePopHeld) + 1) .. Len(popOut)
\* a push whose turn it is has not caught up, and a later push has reserved
\* the next slot all the same
C14_Witness ==
    /\ variant = "Double"
    /\ \E t, u \in Threads :
         /\ pc[t] = "d_push_catch" /\ loc[t].index = narrow.head
         /\ u \in DoublePushHeld /\ loc[u].index = advance(loc[t].index, DataLen)

(***************************************************************************)
(* C15: in DoubleQueue under fair scheduling every catch-up loop ends: a   *)
(* thread in the catch-up loop of push or pop eventually returns.          *)
(***************************************************************************)
C15_CatchUpTerminates ==
    \A t \in Threads : (pc[t] \in {"d_push_catch", "d_pop_catch"}) ~> (pc[t] = "idle")
\* a push is catching up with an outdated view of narrow while a pop is
\* catching up
C15_Witness ==
    /\ variant = "Double"
    /\ \E t, u \in Threads :
         /\ pc[t] = "d_push_catch" /\ loc[t].state.tail # narrow.tail
         /\ pc[u] = "d_pop_catch"

(***************************************************************************)
(* C16: in DoubleQueue no step of a push changes wide.tail or narrow.tail  *)
(* and no step of a pop changes wide.head or narrow.head.                  *)
(***************************************************************************)
C16_DoubleFrame ==
    [][\A t \in Threads :
         (variant = "Double" /\ Mover(t)) =>
            IF role[t] = "push"
            THEN wide'.tail = wide.tail /\ narrow'.tail = narrow.tail
            ELSE wide'.head = wide.head /\ narrow'.head = narrow.head]_vars
\* a push has returned Ok after pops moved both tails, and a pop is catching
\* up
C16_Witness ==
    /\ variant = "Double"
    /\ \E t \in Threads : role[t] = "push" /\ pc[t] = "idle" /\ result[t].kind = "Ok"
    /\ \E u \in Threads : pc[u] = "d_pop_catch"
    /\ narrow.tail # 0 /\ wide.tail # 0

(***************************************************************************)
(* C17: DoubleQueue with no push or pop in progress has wide = narrow, so  *)
(* the assertion of its destructor holds.                                  *)
(***************************************************************************)
C17_QuiescentAgree ==
    variant = "Double" =>
        /\ (\A t \in Threads : pc[t] = "idle") => wide = narrow
        /\ destroyed # "panicked"
\* the queue was dropped with an element left after pushes and pops
C17_Witness ==
    /\ variant = "Double" /\ destroyed = "dropped"
    /\ Len(dropped) >= 1 /\ Len(popOut) >= 1

(***************************************************************************)
(* Observations on AxelQueue.                                              *)
(***************************************************************************)
\* operations between their reservation CAS and their bit update
AxelHeld == {t \in Threads : pc[t] \in {"a_push_write", "a_push_or", "a_pop_read", "a_pop_and"}}
\* the occupancy bit of slot i is set
AxelBitSet(i) == AxelBit(i) \in occupation[AxelWord(i)]

(***************************************************************************)
(* C18: in AxelQueue an operation has exclusive access to its slot between *)
(* its reservation CAS and its bit update: no two operations hold the same *)
(* slot at the same time.                                                  *)
(***************************************************************************)
C18_ExclusiveSlot ==
    variant = "Axel" =>
        \A t, u \in AxelHeld : t # u => loc[t].index # loc[u].index

(***************************************************************************)
(* C19: in AxelQueue the occupancy bit of the reserved slot is clear when  *)
(* push is about to set it and set when pop is about to clear it: neither  *)
(* debug assertion fails.                                                  *)
(***************************************************************************)
C19_BitBeforeUpdate ==
    variant = "Axel" =>
        \A t \in Threads :
            /\ pc[t] = "a_push_or" => ~AxelBitSet(loc[t].index)
            /\ pc[t] = "a_pop_and" => AxelBitSet(loc[t].index)
            /\ pc[t] # "panicked"

(***************************************************************************)
(* C20: in AxelQueue with no push or pop in progress the occupancy bit of  *)
(* slot i is set exactly when i lies in the ring interval from tail        *)
(* (inclusive) to head (exclusive).                                        *)
(***************************************************************************)
C20_QuiescentBits ==
    (variant = "Axel" /\ \A t \in Threads : pc[t] = "idle") =>
        \A i \in 0 .. capacity :
            AxelBitSet(i) <=> InRing(i, state.tail, state.head)

(***************************************************************************)
(* Observations on MaskedQueue.                                            *)
(***************************************************************************)
\* operations between their reservation CAS and the end of cas_release
MaskedPushHeld == {t \in Threads : pc[t] \in {"m_push_write", "m_push_release"}}
MaskedPopHeld == {t \in Threads : pc[t] \in {"m_pop_read", "m_pop_release"}}
\* operations whose reservation is not released: held ones and those that
\* unwound from a failed assertion of cas_release
MaskedPushInFlight ==
    MaskedPushHeld \cup {t \in Threads : /\ pc[t] = "panicked" /\ loc[t].op = "push"
                                          /\ loc[t].value \in Range(resPush)}
MaskedPopInFlight ==
    MaskedPopHeld \cup {t \in Threads : /\ pc[t] = "panicked" /\ loc[t].op = "pop"
                                         /\ loc[t].rank > 0}
\* the number of the head-side reservation a push in flight made
PushRank(t) == CHOOSE k \in 1 .. Len(resPush) : resPush[k] = loc[t].value
\* thread t's reservation CAS succeeds in this step
Reserves(t) == pc[t] = "m_acq_cas" /\ pc'[t] \in {"m_push_write", "m_pop_read"}

(***************************************************************************)
(* C21: in MaskedQueue no two operations hold the same slot between their  *)
(* reservation and their release, and a pop reserves only a slot that      *)
(* holds a value.                                                          *)
(***************************************************************************)
C21_MaskedExclusive ==
    variant = "Masked" =>
        /\ \A t, u \in MaskedPushHeld \cup MaskedPopHeld :
              t # u => loc[t].index # loc[u].index
        /\ \A t \in Threads : pc[t] = "m_pop_read" => data[loc[t].index].live

(***************************************************************************)
(* C22: in MaskedQueue, at the step at which a reservation CAS succeeds,   *)
(* the bounds check holds against the opposing word as it is then: the     *)
(* index checked differs from the opposing side's last-used index.         *)
(***************************************************************************)
C22_CheckAtReservation ==
    [][\A t \in Threads :
         Reserves(t) =>
            check_index(loc[t].op, loc[t].main, loc[t].nextw)
                # get_last_used_index(GuardRef(loc[t].op), DataLen)]_vars

(***************************************************************************)
(* C23: in MaskedQueue the bit cas_release is about to flip marks the      *)
(* caller's own reservation: the offset is the number of reservations made *)
(* on that side since and including the caller's, the bit is set in the    *)
(* side's word, and no assertion of cas_release fails.                     *)
(***************************************************************************)
C23_ReleaseOwnBit ==
    variant = "Masked" =>
        \A t \in Threads :
            /\ pc[t] # "panicked"
            /\ pc[t] = "m_push_release" =>
                  LET offset == release_offset(head, loc[t].index, DataLen)
                  IN /\ offset = Len(resPush) - PushRank(t) + 1
                     /\ (INDEX_BITS - 1 + offset) \in head.mask
            /\ pc[t] = "m_pop_release" =>
                  LET offset == release_offset(tail, loc[t].index, DataLen)
                  IN /\ offset = Len(popOut) - loc[t].rank + 1
                     /\ (INDEX_BITS - 1 + offset) \in tail.mask

(***************************************************************************)
(* C24: in MaskedQueue, while a push is in flight no pop has reserved its  *)
(* slot or the slot of any later push, also when a later push has already  *)
(* released; and while a pop is in flight no push has reserved its slot.   *)
(***************************************************************************)
C24_HiddenUntilReleased ==
    variant = "Masked" =>
        /\ \A t \in MaskedPushHeld : Len(popOut) < PushRank(t)
        /\ \A t \in MaskedPopHeld :
              Len(resPush) < loc[t].rank + capacity + 1

(***************************************************************************)
(* C26: in MaskedQueue get_last_used_index of a side's word is the slot    *)
(* reserved by the oldest operation still in flight on that side, and the  *)
(* word's index when none is in flight.                                    *)
(***************************************************************************)
C26_LastUsedIsOldest ==
    variant = "Masked" =>
        /\ get_last_used_index(head, DataLen) =
              IF MaskedPushInFlight = {} THEN head.index
              ELSE loc[CHOOSE t \in MaskedPushInFlight :
                         \A u \in MaskedPushInFlight : PushRank(t) <= PushRank(u)].index
        /\ get_last_used_index(tail, DataLen) =
              IF MaskedPopInFlight = {} THEN tail.index
              ELSE loc[CHOOSE t \in MaskedPopInFlight :
                         \A u \in MaskedPopInFlight : loc[t].rank <= loc[u].rank].index
\* the later of two pushes has released, the earlier is still in flight
C26_Witness ==
    /\ variant = "Masked" /\ head.mask = {INDEX_BITS + 1}
    /\ Cardinality(MaskedPushHeld) = 1

(***************************************************************************)
(* C27: MaskedQueue with no push or pop in progress has no mask bit set in *)
(* head or tail, so the assertions of its destructor hold.                 *)
(***************************************************************************)
C27_QuiescentMasks ==
    variant = "Masked" =>
        /\ (\A t \in Threads : pc[t] = "idle") => (head.mask = {} /\ tail.mask = {})
        /\ (destroyed = "panicked") => \E t \in Threads : pc[t] = "panicked"
\* the queue was dropped after pushes and pops with an element left
C27_Witness ==
    /\ variant = "Masked" /\ destroyed = "dropped"
    /\ Len(dropped) >= 1 /\ Len(popOut) >= 1

(***************************************************************************)
(* C25: in MaskedQueue a reservation CAS succeeds only from a word whose   *)
(* highest bit is clear, so the shift of the mask discards no set bit; a   *)
(* caller that found the highest bit set reloads the word before it goes   *)
(* on.                                                                     *)
(***************************************************************************)
C25_HighBitClear ==
    [][\A t \in Threads :
         /\ Reserves(t) =>
              /\ (TOTAL_BITS - 1) \notin MainRef(loc[t].op).mask
              /\ MainRef(loc[t].op)'.mask =
                    {b + 1 : b \in MainRef(loc[t].op).mask} \cup {INDEX_BITS}
         /\ pc'[t] \in {"m_acq_guard", "m_acq_cas"} =>
              (TOTAL_BITS - 1) \notin loc'[t].main.mask]_vars
\* a push found the highest bit of head set, went back to reload, and the
\* bit is still set
C25_Witness ==
    \E t \in Threads :
        /\ pc[t] = "m_acq_main" /\ (TOTAL_BITS - 1) \in loc[t].main.mask
        /\ (TOTAL_BITS - 1) \in head.mask
====
